---- MODULE Spec2Model ----
(***************************************************************************)
(* A model of the rope engine of rope.ts: the immutable rope classes       *)
(* (RopeLeaf, RopeBranch), the plain-object "map" representation the       *)
(* split is staged on, splitAt / splitHelper, the concatenation helpers    *)
(* and the edits insert / deleteRange built from them.  The repository     *)
(* holds the file twice; the model follows the revision in which           *)
(* deleteRange is written, and splitAt of lib/rope.ts, whose leaf case     *)
(* differs, is modelled beside it.                                         *)
(*                                                                         *)
(* A text is a sequence of one-character strings.  A rope is a record      *)
(* tagged by its class, a map is a record tagged by its kind.  An absent   *)
(* child (JavaScript undefined / null) is the value undefined, and a call  *)
(* that ends in an uncaught TypeError yields the value Thrown.             *)
(***************************************************************************)
EXTENDS Integers, Sequences, FiniteSets, TLC

\* ------------------------------------------------------------------ bounds

\* Height of the ropes a call may be given as its first argument.
MaxHeight == 3
\* Number of characters of the ropes a call may be given.
MaxSize == 3
\* Number of edits applied one after the other to one rope.
MaxOps == 3
\* The same, where every object of the heap is followed.
MaxHeapOps == 2

\* The characters of the initial ropes, in document order, and of the
\* inserted texts.  The code never inspects a character, so pairwise
\* distinct characters make every misplaced character visible.
Alphabet == <<"a", "b", "c", "d", "e", "f">>
InsTexts == {<<>>, <<"X">>, <<"X", "Y">>}
\* The n-th edit of a sequence inserts nothing or its own letter.
Fresh == <<"V", "W", "X", "Y", "Z">>
EditTexts(n) == {<<>>, <<Fresh[n]>>}

\* ------------------------------------------------------------------ values

undefined == [kind |-> "undefined", class |-> "undefined"]
Thrown == [kind |-> "thrown", class |-> "thrown"]

IsThrown(v) == v.kind = "thrown"
\* JavaScript truthiness of an object-or-undefined value.
Present(v) == v.kind # "undefined"

Max2(a, b) == IF a >= b THEN a ELSE b
Min2(a, b) == IF a <= b THEN a ELSE b
Abs(a) == IF a < 0 THEN -a ELSE a

\* String.prototype.substring: both indices are clamped to [0, length] and
\* swapped when start > end.
Clamp(i, n) == IF i < 0 THEN 0 ELSE IF i > n THEN n ELSE i
substring(text, start, end) ==
  LET s == Clamp(start, Len(text))
      e == Clamp(end, Len(text))
  IN SubSeq(text, Min2(s, e) + 1, Max2(s, e))
substringFrom(text, start) == substring(text, start, Len(text))

\* ------------------------------------------------------------------ maps

MapLeaf(text) == [kind |-> "leaf", class |-> "map", text |-> text]
MapBranch(left, right, size) ==
  [kind |-> "branch", class |-> "map", left |-> left, right |-> right, size |-> size]

\* ------------------------------------------------------------------ ropes

RopeLeaf(text) == [class |-> "RopeLeaf", kind |-> "rope", text |-> text]

\* size(): text.length of a leaf, cachedSize of a branch.
size(rope) == IF rope.class = "RopeLeaf" THEN Len(rope.text) ELSE rope.cachedSize

\* The RopeBranch constructor: cachedSize is computed from the children.
RopeBranch(left, right) ==
  [class |-> "RopeBranch", kind |-> "rope", left |-> left, right |-> right,
   cachedSize |-> (IF Present(left) THEN size(left) ELSE 0)
                 + (IF Present(right) THEN size(right) ELSE 0)]

RECURSIVE height(_)
\* height(): 1 for a leaf, 1 + max(leftHeight, rightHeight) for a branch,
\* an absent child counting 0.
height(rope) ==
  IF rope.class = "RopeLeaf" THEN 1
  ELSE 1 + Max2(IF Present(rope.left) THEN height(rope.left) ELSE 0,
                IF Present(rope.right) THEN height(rope.right) ELSE 0)

leftHeight(rope) == IF ~Present(rope.left) THEN 0 ELSE height(rope.left)
rightHeight(rope) == IF ~Present(rope.right) THEN 0 ELSE height(rope.right)

RECURSIVE isBalanced(_)
\* isBalanced with the height difference compared by <= 2.
isBalancedLoose(rope) ==
  IF rope.class = "RopeLeaf" THEN TRUE
  ELSE LET leftBalanced == IF Present(rope.left) THEN isBalanced(rope.left) ELSE TRUE
           rightBalanced == IF Present(rope.right) THEN isBalanced(rope.right) ELSE TRUE
       IN leftBalanced /\ rightBalanced
          /\ Abs(leftHeight(rope) - rightHeight(rope)) <= 2

isBalanced(rope) ==
  IF rope.class = "RopeLeaf" THEN TRUE
  ELSE LET leftBalanced == IF Present(rope.left) THEN isBalanced(rope.left) ELSE TRUE
           rightBalanced == IF Present(rope.right) THEN isBalanced(rope.right) ELSE TRUE
       IN leftBalanced /\ rightBalanced
          /\ Abs(leftHeight(rope) - rightHeight(rope)) < 2

RECURSIVE toString(_)
toString(rope) ==
  IF rope.class = "RopeLeaf" THEN rope.text
  ELSE (IF Present(rope.left) THEN toString(rope.left) ELSE <<>>)
       \o (IF Present(rope.right) THEN toString(rope.right) ELSE <<>>)

RECURSIVE toMap(_)
\* toMap(): a map of the same shape; a field of an absent child stays unset.
toMap(rope) ==
  IF rope.class = "RopeLeaf" THEN MapLeaf(rope.text)
  ELSE MapBranch(IF Present(rope.left) THEN toMap(rope.left) ELSE undefined,
                 IF Present(rope.right) THEN toMap(rope.right) ELSE undefined,
                 size(rope))

RECURSIVE createRopeFromMap(_)
\* createRopeFromMap trusting the size field of the map.
createRopeFromMapCopySize(map) ==
  IF IsThrown(map) \/ ~Present(map) THEN Thrown
  ELSE IF map.kind = "leaf" THEN RopeLeaf(map.text)
  ELSE [class |-> "RopeBranch", kind |-> "rope",
        left |-> IF Present(map.left) THEN createRopeFromMap(map.left) ELSE undefined,
        right |-> IF Present(map.right) THEN createRopeFromMap(map.right) ELSE undefined,
        cachedSize |-> map.size]

\* Reading map.kind of undefined throws; the size field of the map is not
\* read, the RopeBranch constructor computes cachedSize anew.
createRopeFromMap(map) ==
  IF IsThrown(map) \/ ~Present(map) THEN Thrown
  ELSE IF map.kind = "leaf" THEN RopeLeaf(map.text)
  ELSE RopeBranch(IF Present(map.left) THEN createRopeFromMap(map.left) ELSE undefined,
                  IF Present(map.right) THEN createRopeFromMap(map.right) ELSE undefined)

\* ------------------------------------------------------------------ split

\* getSize reads map.kind: it throws on undefined.
getSizeThrows(map) == ~Present(map)
getSize(map) == IF map.kind = "leaf" THEN Len(map.text) ELSE map.size

SplitThrown ==
  [kind |-> "helped", class |-> "helped", thrown |-> TRUE, ans |-> undefined, list |-> <<>>]
SplitOk(ans, list) ==
  [kind |-> "helped", class |-> "helped", thrown |-> FALSE, ans |-> ans, list |-> list]

RECURSIVE splitHelper(_, _, _)
\* splitHelper recursing into the right child with the position of the
\* parent, not made relative to the right child.
splitHelperAbsolute(map, position, list) ==
  IF ~Present(map) THEN SplitThrown
  ELSE IF map.kind = "leaf" THEN
    SplitOk(MapLeaf(substring(map.text, 0, position + 1)),
            Append(list, MapLeaf(substringFrom(map.text, position + 1))))
  ELSE IF getSizeThrows(map.left) THEN SplitThrown
  ELSE LET leftSize == getSize(map.left) IN
    IF leftSize = position + 1 THEN
      IF getSizeThrows(map.right) THEN SplitThrown
      ELSE SplitOk(MapBranch(map.left, undefined, map.size - getSize(map.right)),
                   Append(list, map.right))
    ELSE IF leftSize > position + 1 THEN
      LET leftSubtreeAns == splitHelper(map.left, position, list) IN
      IF leftSubtreeAns.thrown THEN SplitThrown
      ELSE SplitOk(MapBranch(leftSubtreeAns.ans, undefined, getSize(leftSubtreeAns.ans)),
                   Append(leftSubtreeAns.list, map.right))
    ELSE
      LET rightSubtreeAns == splitHelper(map.right, position, list) IN
      IF rightSubtreeAns.thrown THEN SplitThrown
      ELSE SplitOk(MapBranch(map.left, rightSubtreeAns.ans, getSize(rightSubtreeAns.ans)),
                   rightSubtreeAns.list)

\* splitHelper detaching the right child before it recurses into the left
\* child, so that the fragments are collected outermost first.
splitHelperPushFirst(map, position, list) ==
  IF ~Present(map) THEN SplitThrown
  ELSE IF map.kind = "leaf" THEN
    SplitOk(MapLeaf(substring(map.text, 0, position + 1)),
            Append(list, MapLeaf(substringFrom(map.text, position + 1))))
  ELSE IF getSizeThrows(map.left) THEN SplitThrown
  ELSE LET leftSize == getSize(map.left) IN
    IF leftSize = position + 1 THEN
      IF getSizeThrows(map.right) THEN SplitThrown
      ELSE SplitOk(MapBranch(map.left, undefined, map.size - getSize(map.right)),
                   Append(list, map.right))
    ELSE IF leftSize > position + 1 THEN
      LET leftSubtreeAns == splitHelper(map.left, position, Append(list, map.right)) IN
      IF leftSubtreeAns.thrown THEN SplitThrown
      ELSE SplitOk(MapBranch(leftSubtreeAns.ans, undefined, getSize(leftSubtreeAns.ans)),
                   leftSubtreeAns.list)
    ELSE
      LET rightSubtreeAns == splitHelper(map.right, position - getSize(map.left), list) IN
      IF rightSubtreeAns.thrown THEN SplitThrown
      ELSE SplitOk(MapBranch(map.left, rightSubtreeAns.ans, getSize(rightSubtreeAns.ans)),
                   rightSubtreeAns.list)

\* The left side is returned (ans), the detached right sides are appended
\* to list.  The branch cases update the given map object, which is the
\* private copy toMap made, so the updated object is the value returned.
splitHelper(map, position, list) ==
  IF ~Present(map) THEN SplitThrown
  ELSE IF map.kind = "leaf" THEN
    SplitOk(MapLeaf(substring(map.text, 0, position + 1)),
            Append(list, MapLeaf(substringFrom(map.text, position + 1))))
  ELSE IF getSizeThrows(map.left) THEN SplitThrown
  ELSE LET leftSize == getSize(map.left) IN
    IF leftSize = position + 1 THEN
      IF getSizeThrows(map.right) THEN SplitThrown
      ELSE SplitOk(MapBranch(map.left, undefined, map.size - getSize(map.right)),
                   Append(list, map.right))
    ELSE IF leftSize > position + 1 THEN
      LET leftSubtreeAns == splitHelper(map.left, position, list) IN
      IF leftSubtreeAns.thrown THEN SplitThrown
      ELSE SplitOk(MapBranch(leftSubtreeAns.ans, undefined, getSize(leftSubtreeAns.ans)),
                   Append(leftSubtreeAns.list, map.right))
    ELSE
      LET rightSubtreeAns == splitHelper(map.right, position - getSize(map.left), list) IN
      IF rightSubtreeAns.thrown THEN SplitThrown
      ELSE SplitOk(MapBranch(map.left, rightSubtreeAns.ans, getSize(rightSubtreeAns.ans)),
                   rightSubtreeAns.list)

RECURSIVE splitHelperLib(_, _, _)
\* splitHelper as lib/rope.ts has it: the left part of a leaf is returned
\* wrapped in a branch with no right child; the branch cases are the same.
splitHelperLib(map, position, list) ==
  IF ~Present(map) THEN SplitThrown
  ELSE IF map.kind = "leaf" THEN
    LET leftLeafNode == MapLeaf(substring(map.text, 0, position + 1)) IN
    SplitOk(MapBranch(leftLeafNode, undefined, Len(leftLeafNode.text)),
            Append(list, MapLeaf(substringFrom(map.text, position + 1))))
  ELSE IF getSizeThrows(map.left) THEN SplitThrown
  ELSE LET leftSize == getSize(map.left) IN
    IF leftSize = position + 1 THEN
      IF getSizeThrows(map.right) THEN SplitThrown
      ELSE SplitOk(MapBranch(map.left, undefined, map.size - getSize(map.right)),
                   Append(list, map.right))
    ELSE IF leftSize > position + 1 THEN
      LET leftSubtreeAns == splitHelperLib(map.left, position, list) IN
      IF leftSubtreeAns.thrown THEN SplitThrown
      ELSE SplitOk(MapBranch(leftSubtreeAns.ans, undefined, getSize(leftSubtreeAns.ans)),
                   Append(leftSubtreeAns.list, map.right))
    ELSE
      LET rightSubtreeAns == splitHelperLib(map.right, position - getSize(map.left), list) IN
      IF rightSubtreeAns.thrown THEN SplitThrown
      ELSE SplitOk(MapBranch(map.left, rightSubtreeAns.ans, getSize(rightSubtreeAns.ans)),
                   rightSubtreeAns.list)

concatenateTwoMaps(map1, map2) ==
  IF IsThrown(map1) \/ IsThrown(map2) THEN Thrown
  ELSE IF getSizeThrows(map1) \/ getSizeThrows(map2) THEN Thrown
  ELSE MapBranch(map1, map2, getSize(map1) + getSize(map2))

RECURSIVE concatenateFrom(_, _, _)
\* The loop of concatenateMapList from index i on, leftTree being the
\* tree built so far.
concatenateFrom(leftTree, list, i) ==
  IF i > Len(list) \/ IsThrown(leftTree) THEN leftTree
  ELSE concatenateFrom(concatenateTwoMaps(leftTree, list[i]), list, i + 1)

RECURSIVE concatenateRight(_, _)
concatenateRight(list, i) ==
  IF i = Len(list) THEN list[i]
  ELSE concatenateTwoMaps(list[i], concatenateRight(list, i + 1))

\* concatenateMapList folding from the right: the last two fragments are
\* joined first.
concatenateMapListRight(list) ==
  IF Len(list) = 0 THEN undefined ELSE concatenateRight(list, 1)

\* list[0] of an empty list is undefined.
concatenateMapList(list) ==
  IF Len(list) = 0 THEN undefined ELSE concatenateFrom(list[1], list, 2)

SplitAtThrown ==
  [kind |-> "split", class |-> "split", thrown |-> TRUE, left |-> undefined,
   right |-> undefined]

splitAt(rope, position) ==
  LET map == toMap(rope)
      h == splitHelper(map, position, <<>>)
  IN IF h.thrown THEN SplitAtThrown
     ELSE LET left == createRopeFromMap(h.ans)
              right == createRopeFromMap(concatenateMapList(h.list))
          IN IF IsThrown(left) \/ IsThrown(right) THEN SplitAtThrown
             ELSE [kind |-> "split", class |-> "split", thrown |-> FALSE,
                   left |-> left, right |-> right]

splitAtLib(rope, position) ==
  LET map == toMap(rope)
      h == splitHelperLib(map, position, <<>>)
  IN IF h.thrown THEN SplitAtThrown
     ELSE LET left == createRopeFromMap(h.ans)
              right == createRopeFromMap(concatenateMapList(h.list))
          IN IF IsThrown(left) \/ IsThrown(right) THEN SplitAtThrown
             ELSE [kind |-> "split", class |-> "split", thrown |-> FALSE,
                   left |-> left, right |-> right]

\* ------------------------------------------------------------------ edits

insert(rope, text, location) ==
  LET textRope == RopeLeaf(text) IN
  IF location = 0
  THEN createRopeFromMap(concatenateTwoMaps(toMap(textRope), toMap(rope)))
  ELSE LET s == splitAt(rope, location - 1) IN
       IF s.thrown THEN Thrown
       ELSE createRopeFromMap(
              concatenateMapList(<<toMap(s.left), toMap(textRope), toMap(s.right)>>))

\* The second split of deleteRange made one position further to the right.
endPositionInclusive(leftStartSplit, end) == end - getSize(toMap(leftStartSplit))

\* The position of the second split of deleteRange.
endPosition(leftStartSplit, end) == end - getSize(toMap(leftStartSplit)) - 1

deleteRange(rope, start, end) ==
  LET s1 == splitAt(rope, start - 1) IN
  IF s1.thrown THEN Thrown
  ELSE LET s2 == splitAt(s1.right, endPosition(s1.left, end)) IN
       IF s2.thrown THEN Thrown
       ELSE createRopeFromMap(concatenateMapList(<<toMap(s1.left), toMap(s2.right)>>))

\* The body of rebalance is empty: the call returns undefined.
rebalance(rope) == undefined

\* ------------------------------------------------------------------ objects
\* The same code on a heap of JavaScript objects, to follow which object
\* an assignment changes.  The heap is a sequence of objects, an address is
\* an index into it and 0 is undefined / null.  An object carries every
\* property the two families of objects use; a property that is not set
\* holds 0, "" or <<>> and is never read by the code.

NewRopeLeaf(text) ==
  [class |-> "RopeLeaf", kind |-> "", text |-> text, left |-> 0, right |-> 0,
   size |-> 0, cachedSize |-> 0]
NewRopeBranch(left, right, cachedSize) ==
  [class |-> "RopeBranch", kind |-> "", text |-> <<>>, left |-> left, right |-> right,
   size |-> 0, cachedSize |-> cachedSize]
NewMapLeaf(text) ==
  [class |-> "Object", kind |-> "leaf", text |-> text, left |-> 0, right |-> 0,
   size |-> 0, cachedSize |-> 0]
NewMapBranch(left, right, n) ==
  [class |-> "Object", kind |-> "branch", text |-> <<>>, left |-> left, right |-> right,
   size |-> n, cachedSize |-> 0]

\* What a call leaves behind: the heap, the address it returns and whether
\* it threw.
Returned(h, a) == [h |-> h, a |-> a, thrown |-> FALSE]
ThrownH(h) == [h |-> h, a |-> 0, thrown |-> TRUE]
Alloc(h, obj) == Returned(Append(h, obj), Len(h) + 1)

\* Statement sequencing: K applied to the value of v, v evaluated once.
Then(v, K(_)) == CHOOSE y \in {K(x) : x \in {v}} : TRUE

sizeH(h, a) == IF h[a].class = "RopeLeaf" THEN Len(h[a].text) ELSE h[a].cachedSize

RECURSIVE ropeAt(_, _)
\* The rope whose root is the object at address a: its shape, its texts and
\* the cachedSize of every branch.
ropeAt(h, a) ==
  IF a = 0 THEN undefined
  ELSE IF h[a].class = "RopeLeaf" THEN RopeLeaf(h[a].text)
  ELSE [class |-> "RopeBranch", kind |-> "rope", left |-> ropeAt(h, h[a].left),
        right |-> ropeAt(h, h[a].right), cachedSize |-> h[a].cachedSize]

RECURSIVE mapAt(_, _)
\* The map whose root is the object at address a.
mapAt(h, a) ==
  IF a = 0 THEN undefined
  ELSE IF h[a].kind = "leaf" THEN MapLeaf(h[a].text)
  ELSE MapBranch(mapAt(h, h[a].left), mapAt(h, h[a].right), h[a].size)

\* The object at address a with its right, then its left field assigned.
SetRight(r, a) == Returned([r.h EXCEPT ![a].right = r.a], a)
SetLeft(l, a) == Returned([l.h EXCEPT ![a].left = l.a], a)

RECURSIVE toMapH(_, _)
\* toMap handing out again a map it made before for the same rope, when
\* one is on the heap, and a new one only otherwise.
toMapHReused(h, a) ==
  LET made == {m \in 1..Len(h) :
                 h[m].class = "Object" /\ mapAt(h, m) = toMap(ropeAt(h, a))}
  IN IF made # {} THEN Returned(h, CHOOSE m \in made : \A n \in made : m <= n)
     ELSE IF h[a].class = "RopeLeaf" THEN Alloc(h, NewMapLeaf(h[a].text))
     ELSE
       Then(Alloc(h, NewMapBranch(0, 0, sizeH(h, a))), LAMBDA mapVersion :
       Then(IF h[a].right # 0
            THEN Then(toMapH(mapVersion.h, h[a].right),
                      LAMBDA r : SetRight(r, mapVersion.a))
            ELSE mapVersion, LAMBDA withRight :
       IF h[a].left # 0
       THEN Then(toMapH(withRight.h, h[a].left), LAMBDA l : SetLeft(l, mapVersion.a))
       ELSE withRight))

\* toMap(): a new object for every node of the rope; the right child is
\* converted before the left one.
toMapH(h, a) ==
  IF h[a].class = "RopeLeaf" THEN Alloc(h, NewMapLeaf(h[a].text))
  ELSE
    Then(Alloc(h, NewMapBranch(0, 0, sizeH(h, a))), LAMBDA mapVersion :
    Then(IF h[a].right # 0
         THEN Then(toMapH(mapVersion.h, h[a].right),
                   LAMBDA r : SetRight(r, mapVersion.a))
         ELSE mapVersion, LAMBDA withRight :
    IF h[a].left # 0
    THEN Then(toMapH(withRight.h, h[a].left), LAMBDA l : SetLeft(l, mapVersion.a))
    ELSE withRight))

\* new RopeBranch(left, right) with the children at the addresses given.
ConstructBranch(h, left, right) ==
  Alloc(h, NewRopeBranch(left, right,
                         (IF left # 0 THEN sizeH(h, left) ELSE 0)
                         + (IF right # 0 THEN sizeH(h, right) ELSE 0)))

RECURSIVE createRopeFromMapH(_, _)
createRopeFromMapH(h, map) ==
  IF map = 0 THEN ThrownH(h)
  ELSE IF h[map].kind = "leaf" THEN Alloc(h, NewRopeLeaf(h[map].text))
  ELSE
    Then(IF h[map].left # 0 THEN createRopeFromMapH(h, h[map].left)
         ELSE Returned(h, 0), LAMBDA left :
    Then(IF h[map].right # 0 THEN createRopeFromMapH(left.h, h[map].right)
         ELSE Returned(left.h, 0), LAMBDA right :
    ConstructBranch(right.h, left.a, right.a)))

getSizeH(h, map) == IF h[map].kind = "leaf" THEN Len(h[map].text) ELSE h[map].size

HelpedH(h, a, list) == [h |-> h, a |-> a, list |-> list, thrown |-> FALSE]
HelpThrownH(h) == [h |-> h, a |-> 0, list |-> <<>>, thrown |-> TRUE]

\* The three updates splitHelper makes to the object at the address map.
\* list.push(map.right); map.size = map.size - getSize(map.right);
\* map.right = undefined
DetachRight(h, map, list) ==
  HelpedH([h EXCEPT ![map].size = @ - getSizeH(h, h[map].right), ![map].right = 0],
          map, Append(list, h[map].right))
\* map.left = leftSubtreeAns; list.push(map.right);
\* map.size = getSize(map.left); map.right = undefined
KeepLeftAns(ans, map) ==
  HelpedH([ans.h EXCEPT ![map].left = ans.a, ![map].size = getSizeH(ans.h, ans.a),
                        ![map].right = 0],
          map, Append(ans.list, ans.h[map].right))
\* map.right = rightSubtreeAns; map.size = getSize(map.right)
KeepRightAns(ans, map) ==
  HelpedH([ans.h EXCEPT ![map].right = ans.a, ![map].size = getSizeH(ans.h, ans.a)],
          map, ans.list)

RECURSIVE splitHelperH(_, _, _, _)
\* The assignments to map.left, map.right and map.size change the object
\* at the address map.
splitHelperH(h, map, position, list) ==
  IF map = 0 THEN HelpThrownH(h)
  ELSE IF h[map].kind = "leaf" THEN
    Then(Alloc(h, NewMapLeaf(substring(h[map].text, 0, position + 1))),
         LAMBDA leftLeafNode :
    Then(Alloc(leftLeafNode.h, NewMapLeaf(substringFrom(h[map].text, position + 1))),
         LAMBDA rightLeafNode :
    HelpedH(rightLeafNode.h, leftLeafNode.a, Append(list, rightLeafNode.a))))
  ELSE IF h[map].left = 0 THEN HelpThrownH(h)
  ELSE IF getSizeH(h, h[map].left) = position + 1 THEN
    IF h[map].right = 0 THEN HelpThrownH(h) ELSE DetachRight(h, map, list)
  ELSE IF getSizeH(h, h[map].left) > position + 1 THEN
    Then(splitHelperH(h, h[map].left, position, list), LAMBDA leftSubtreeAns :
    IF leftSubtreeAns.thrown THEN HelpThrownH(leftSubtreeAns.h)
    ELSE KeepLeftAns(leftSubtreeAns, map))
  ELSE
    Then(splitHelperH(h, h[map].right, position - getSizeH(h, h[map].left), list),
         LAMBDA rightSubtreeAns :
    IF rightSubtreeAns.thrown THEN HelpThrownH(rightSubtreeAns.h)
    ELSE KeepRightAns(rightSubtreeAns, map))

concatenateTwoMapsH(h, map1, map2) ==
  IF map1 = 0 \/ map2 = 0 THEN ThrownH(h)
  ELSE Alloc(h, NewMapBranch(map1, map2, getSizeH(h, map1) + getSizeH(h, map2)))

RECURSIVE concatenateFromH(_, _, _, _)
concatenateFromH(h, leftTree, list, i) ==
  IF i > Len(list) THEN Returned(h, leftTree)
  ELSE Then(concatenateTwoMapsH(h, leftTree, list[i]), LAMBDA c :
       IF c.thrown THEN c ELSE concatenateFromH(c.h, c.a, list, i + 1))

concatenateMapListH(h, list) ==
  IF Len(list) = 0 THEN Returned(h, 0) ELSE concatenateFromH(h, list[1], list, 2)

SplitH(h, left, right) == [h |-> h, left |-> left, right |-> right, thrown |-> FALSE]
SplitThrownH(h) == [h |-> h, left |-> 0, right |-> 0, thrown |-> TRUE]

splitAtH(h, rope, position) ==
  Then(toMapH(h, rope), LAMBDA map :
  Then(splitHelperH(map.h, map.a, position, <<>>), LAMBDA helped :
  IF helped.thrown THEN SplitThrownH(helped.h)
  ELSE
    Then(createRopeFromMapH(helped.h, helped.a), LAMBDA left :
    Then(concatenateMapListH(left.h, helped.list), LAMBDA joined :
    IF joined.thrown THEN SplitThrownH(joined.h)
    ELSE Then(createRopeFromMapH(joined.h, joined.a), LAMBDA right :
         IF right.thrown THEN SplitThrownH(right.h)
         ELSE SplitH(right.h, left.a, right.a))))))

\* createRopeFromMap(concatenateMapList(list)), the list being built of
\* maps at the addresses given.
FromList(h, list) ==
  Then(concatenateMapListH(h, list), LAMBDA constructedMap :
  IF constructedMap.thrown THEN constructedMap
  ELSE createRopeFromMapH(constructedMap.h, constructedMap.a))

insertH(h, rope, text, location) ==
  Then(Alloc(h, NewRopeLeaf(text)), LAMBDA textRope :
  IF location = 0
  THEN Then(toMapH(textRope.h, textRope.a), LAMBDA map1 :
       Then(toMapH(map1.h, rope), LAMBDA map2 :
       Then(concatenateTwoMapsH(map2.h, map1.a, map2.a), LAMBDA joined :
       IF joined.thrown THEN joined ELSE createRopeFromMapH(joined.h, joined.a))))
  ELSE Then(splitAtH(textRope.h, rope, location - 1), LAMBDA s :
       IF s.thrown THEN ThrownH(s.h)
       ELSE Then(toMapH(s.h, s.left), LAMBDA map1 :
            Then(toMapH(map1.h, textRope.a), LAMBDA map2 :
            Then(toMapH(map2.h, s.right), LAMBDA map3 :
            FromList(map3.h, <<map1.a, map2.a, map3.a>>))))))

deleteRangeH(h, rope, start, end) ==
  Then(splitAtH(h, rope, start - 1), LAMBDA s1 :
  IF s1.thrown THEN ThrownH(s1.h)
  ELSE
    Then(toMapH(s1.h, s1.left), LAMBDA sized :
    Then(splitAtH(sized.h, s1.right, end - getSizeH(sized.h, sized.a) - 1), LAMBDA s2 :
    IF s2.thrown THEN ThrownH(s2.h)
    ELSE Then(toMapH(s2.h, s1.left), LAMBDA map1 :
         Then(toMapH(map1.h, s2.right), LAMBDA map2 :
         FromList(map2.h, <<map1.a, map2.a>>))))))

\* ------------------------------------------------------------------ inputs

RECURSIVE Ropes(_, _, _)
\* The ropes of height at most h, every branch with both children, holding
\* the n characters of Alphabet from index lo on (a leaf may be empty).
Ropes(h, lo, n) ==
  {RopeLeaf(SubSeq(Alphabet, lo, lo + n - 1))}
  \cup (IF h <= 1 THEN {}
        ELSE UNION {
          {RopeBranch(l, r) : l \in Ropes(h - 1, lo, k), r \in Ropes(h - 1, lo + k, n - k)}
          : k \in 0..n})

InitRopes == UNION {Ropes(MaxHeight, 1, n) : n \in 0..MaxSize}
InitLeaves == {RopeLeaf(SubSeq(Alphabet, 1, n)) : n \in 0..MaxSize}

RECURSIVE Full(_)
\* Every branch of the rope has both children present.
Full(rope) ==
  \/ rope.class = "RopeLeaf"
  \/ /\ rope.class = "RopeBranch"
     /\ Present(rope.left) /\ Present(rope.right)
     /\ Full(rope.left) /\ Full(rope.right)

\* ------------------------------------------------------------------ state

VARIABLES
  rope,    \* the rope the caller holds
  log,     \* the calls made so far, each with the rope it was given
  result,  \* what the last call returned, or Thrown
  heap,    \* the objects allocated so far (followed in SpecHeap only)
  root     \* the address of the rope the caller holds, 0 when not followed

vars == <<rope, log, result, heap, root>>

NoResult == [kind |-> "none", class |-> "none"]

\* The caller keeps the returned rope, or the old one when the call threw.
Kept(old, new) == IF new.class \in {"RopeLeaf", "RopeBranch"} THEN new ELSE old

Insert(text, location) ==
  /\ result' = insert(rope, text, location)
  /\ log' = Append(log, [name |-> "insert", rope |-> rope, text |-> text,
                         location |-> location])
  /\ rope' = Kept(rope, result')
  /\ UNCHANGED <<heap, root>>

DeleteRange(start, end) ==
  /\ result' = deleteRange(rope, start, end)
  /\ log' = Append(log, [name |-> "deleteRange", rope |-> rope, start |-> start,
                         end |-> end])
  /\ rope' = Kept(rope, result')
  /\ UNCHANGED <<heap, root>>

SplitAt(position) ==
  /\ result' = splitAt(rope, position)
  /\ log' = Append(log, [name |-> "splitAt", rope |-> rope, position |-> position])
  /\ UNCHANGED <<rope, heap, root>>

\* splitAt of lib/rope.ts, logged as a splitAt call.
SplitAtLib(position) ==
  /\ result' = splitAtLib(rope, position)
  /\ log' = Append(log, [name |-> "splitAt", rope |-> rope, position |-> position,
                         file |-> "lib/rope.ts"])
  /\ UNCHANGED <<rope, heap, root>>

SplitHelper(position) ==
  /\ result' = splitHelper(toMap(rope), position, <<>>)
  /\ log' = Append(log, [name |-> "splitHelper", rope |-> rope, position |-> position])
  /\ UNCHANGED <<rope, heap, root>>

Rebalance ==
  /\ result' = rebalance(rope)
  /\ log' = Append(log, [name |-> "rebalance", rope |-> rope])
  /\ UNCHANGED <<rope, heap, root>>

\* One call on any rope of the bounded set, with any index from one below
\* to one above the valid range.  Ropes with an absent child are the ones
\* the edits of SpecEdits build.
Init ==
  /\ rope \in InitRopes
  /\ log = <<>>
  /\ result = NoResult
  /\ heap = <<>>
  /\ root = 0

Indices == -1 .. size(rope) + 1
Once == Len(log) = 0

Next ==
  \/ \E text \in InsTexts, location \in Indices : Once /\ Insert(text, location)
  \/ \E start \in Indices, end \in Indices : Once /\ DeleteRange(start, end)
  \/ \E position \in Indices : Once /\ SplitAt(position)
  \/ \E position \in Indices : Once /\ SplitAtLib(position)
  \/ \E position \in Indices : Once /\ SplitHelper(position)
  \/ Once /\ Rebalance

Spec == Init /\ [][Next]_vars

\* Sequences of valid edits starting from a single leaf.
InitEdits ==
  /\ rope \in InitLeaves
  /\ log = <<>>
  /\ result = NoResult
  /\ heap = <<>>
  /\ root = 0

More == Len(log) < MaxOps

NextEdits ==
  \/ \E text \in EditTexts(Len(log) + 1), location \in 0 .. size(rope) :
       More /\ Insert(text, location)
  \/ \E start \in 0 .. size(rope) - 1 :
       \E end \in start .. size(rope) - 1 : More /\ DeleteRange(start, end)
  \/ \E position \in 0 .. size(rope) - 1 : More /\ SplitAt(position)

SpecEdits == InitEdits /\ [][NextEdits]_vars

\* The same sequences of edits on the heap of objects.  A log entry also
\* keeps the address of the rope the call was given (at), the address it
\* returned (ret) and the rope that was at ret when the call returned (out).
InsertH(text, location) ==
  LET r == insertH(heap, root, text, location) IN
  /\ heap' = r.h
  /\ root' = IF r.thrown THEN root ELSE r.a
  /\ result' = IF r.thrown THEN Thrown ELSE ropeAt(r.h, r.a)
  /\ log' = Append(log, [name |-> "insert", rope |-> rope, text |-> text,
                         location |-> location, at |-> root, ret |-> r.a,
                         out |-> result'])
  /\ rope' = Kept(rope, result')

DeleteRangeH(start, end) ==
  LET r == deleteRangeH(heap, root, start, end) IN
  /\ heap' = r.h
  /\ root' = IF r.thrown THEN root ELSE r.a
  /\ result' = IF r.thrown THEN Thrown ELSE ropeAt(r.h, r.a)
  /\ log' = Append(log, [name |-> "deleteRange", rope |-> rope, start |-> start,
                         end |-> end, at |-> root, ret |-> r.a, out |-> result'])
  /\ rope' = Kept(rope, result')

InitHeap ==
  /\ rope \in InitLeaves
  /\ log = <<>>
  /\ result = NoResult
  /\ heap = <<NewRopeLeaf(rope.text)>>
  /\ root = 1

MoreH == Len(log) < MaxHeapOps

NextHeap ==
  \/ \E text \in EditTexts(Len(log) + 1), location \in 0 .. size(rope) :
       MoreH /\ InsertH(text, location)
  \/ \E start \in 0 .. size(rope) - 1 :
       \E end \in start .. size(rope) - 1 : MoreH /\ DeleteRangeH(start, end)

SpecHeap == InitHeap /\ [][NextHeap]_vars

Last == log[Len(log)]
Called(name) == Len(log) > 0 /\ Last.name = name

\* ------------------------------------------------------------------ claims

IsRope(v) == v.class \in {"RopeLeaf", "RopeBranch"}
OnlyInserts == \A i \in 1..Len(log) : log[i].name = "insert"
OnlyAppends ==
  \A i \in 1..Len(log) :
    /\ log[i].name = "insert"
    /\ log[i].location = size(log[i].rope)
    /\ log[i].location > 0

\* The first n characters of a text, and the rest.
Take(text, n) == SubSeq(text, 1, n)
Drop(text, n) == SubSeq(text, n + 1, Len(text))
Splice(text, t, location) == Take(text, location) \o t \o Drop(text, location)

ValidPosition == 0 <= Last.position /\ Last.position < size(Last.rope)
ValidRange ==
  0 <= Last.start /\ Last.start <= Last.end /\ Last.end < size(Last.rope)

\* C1: splitAt of a rope whose branches all have both children, at a
\* position in 0 .. size-1, returns a left rope holding exactly the first
\* position+1 characters and a right rope holding exactly the rest, so that
\* the two texts joined give the text of the rope.
C1_SplitLossless ==
  (Called("splitAt") /\ Full(Last.rope) /\ ValidPosition) =>
    /\ ~result.thrown
    /\ toString(result.left) = Take(toString(Last.rope), Last.position + 1)
    /\ toString(result.right) = Drop(toString(Last.rope), Last.position + 1)
    /\ toString(result.left) \o toString(result.right) = toString(Last.rope)

C1_Witness ==
  /\ Called("splitAt") /\ Full(Last.rope) /\ ValidPosition
  /\ height(Last.rope) = 3
  /\ ~result.thrown
  /\ toString(result.left) = <<"a", "b">>
  /\ toString(result.right) = <<"c">>

\* C2: from a RopeLeaf, every insert of a sequence of inserts at locations
\* in 0 .. size returns a rope, whose text is the text of the rope it was
\* given with the inserted text spliced in at the location.
C2_InsertCorrect ==
  (Called("insert") /\ OnlyInserts) =>
    /\ IsRope(result)
    /\ toString(result) = Splice(toString(Last.rope), Last.text, Last.location)

RECURSIVE SizesAddUp(_)
\* Every branch of the rope has size() = size of left + size of right, an
\* absent child counting 0.
SizesAddUp(r) ==
  \/ r.class = "RopeLeaf"
  \/ /\ size(r) = (IF Present(r.left) THEN size(r.left) ELSE 0)
                  + (IF Present(r.right) THEN size(r.right) ELSE 0)
     /\ Present(r.left) => SizesAddUp(r.left)
     /\ Present(r.right) => SizesAddUp(r.right)

SizeInvariant(r) == SizesAddUp(r) /\ size(r) = Len(toString(r))

\* C4: in every rope a call returns, after any sequence of calls, every
\* branch has size() equal to the sum of the sizes of its children, and the
\* size() of the root is the length of toString().
C4_SizeInvariant ==
  /\ SizeInvariant(rope)
  /\ IsRope(result) => SizeInvariant(result)
  /\ (Called("splitAt") /\ ~result.thrown) =>
       SizeInvariant(result.left) /\ SizeInvariant(result.right)

C4_Witness ==
  /\ Len(log) = MaxOps
  /\ Called("splitAt") /\ ~result.thrown
  /\ height(result.left) >= 4
  /\ result.left.right.class = "RopeBranch"
  /\ size(result.left.right) > 0
  /\ size(result.left.left) > 0

\* C5: insert with a location below 0 or above size, and deleteRange with
\* start < 0, start > end or end >= size, signal an error instead of
\* returning a rope, and the caller's rope is unchanged.
C5_InvalidIndexSignalled ==
  /\ (Called("insert") /\ (Last.location < 0 \/ Last.location > size(Last.rope))) =>
       (IsThrown(result) /\ rope = Last.rope)
  /\ (Called("deleteRange") /\ ~ValidRange) =>
       (IsThrown(result) /\ rope = Last.rope)

\* C7: rebalance returns a balanced rope with the text of its argument.
C7_RebalanceContract ==
  Called("rebalance") =>
    /\ IsRope(result)
    /\ toString(result) = toString(Last.rope)
    /\ isBalanced(result)

RECURSIVE flatten(_)
\* The text a map holds.
flatten(map) ==
  IF ~Present(map) THEN <<>>
  ELSE IF map.kind = "leaf" THEN map.text
  ELSE flatten(map.left) \o flatten(map.right)

RECURSIVE MapSizesTrue(_)
MapSizesTrue(map) ==
  \/ ~Present(map)
  \/ map.kind = "leaf"
  \/ /\ map.size = Len(flatten(map.left)) + Len(flatten(map.right))
     /\ MapSizesTrue(map.left)
     /\ MapSizesTrue(map.right)

\* C8: every branch of the map splitHelper returns, for a well-formed map
\* and a valid position, has a size field equal to the true sum of the
\* sizes of its left and right children.
C8_SplitHelperSizes ==
  (Called("splitHelper") /\ Full(Last.rope) /\ ValidPosition) =>
    (~result.thrown /\ MapSizesTrue(result.ans))

\* C9: splitAt at position -1 of a rope whose branches all have both
\* children returns an empty left rope of size 0 and a right rope with the
\* whole text; in deleteRange(r, 0, end) the second split is then made at
\* position end - 1.
C9_SplitBeforeFirst ==
  /\ (Called("splitAt") /\ Full(Last.rope) /\ Last.position = -1) =>
       /\ ~result.thrown
       /\ toString(result.left) = <<>>
       /\ size(result.left) = 0
       /\ toString(result.right) = toString(Last.rope)
  /\ (Called("deleteRange") /\ Full(Last.rope) /\ ValidRange /\ Last.start = 0) =>
       LET s1 == splitAt(Last.rope, Last.start - 1) IN
         /\ ~s1.thrown
         /\ toString(s1.left) = <<>>
         /\ endPosition(s1.left, Last.end) = Last.end - 1

C9_Witness ==
  /\ Called("splitAt") /\ Full(Last.rope) /\ Last.position = -1
  /\ height(Last.rope) = 3
  /\ ~result.thrown
  /\ toString(result.right) = <<"a", "b", "c">>
  /\ result.left.class = "RopeBranch"

\* C10: edits do not keep the rope balanced: from a leaf that is not empty,
\* two or more appends insert(r, c, size(r)) return a rope with
\* isBalanced() false.
C10_AppendsUnbalance ==
  (Len(log) >= 2 /\ OnlyAppends) => (IsRope(result) /\ ~isBalanced(result))

C10_Witness ==
  /\ Len(log) >= 2 /\ OnlyAppends
  /\ IsRope(result)
  /\ ~isBalanced(result)
  /\ isBalanced(Last.rope)

\* The heap agrees with the values: the rope at root is the rope the caller
\* holds, and a call on the heap returns what the call on values returns.
HeapAgrees ==
  /\ ropeAt(heap, root) = rope
  /\ Called("insert") => result = insert(Last.rope, Last.text, Last.location)
  /\ Called("deleteRange") => result = deleteRange(Last.rope, Last.start, Last.end)

\* An object of the heap that splitHelper has updated in place: a map
\* branch whose size is not the sum of the sizes of its children.
Updated(a) ==
  /\ heap[a].kind = "branch"
  /\ heap[a].left # 0 /\ heap[a].right # 0
  /\ heap[a].size # getSizeH(heap, heap[a].left) + getSizeH(heap, heap[a].right)

\* C6: no call changes a rope: after any sequence of insert and deleteRange
\* calls, every rope that was given to a call or returned by one still has
\* the shape, the cachedSize at every branch and the text it had then; a
\* call changes no object that existed before it, the objects splitHelper
\* updates are the maps toMap made during the call.
C6_RopesNeverChange ==
  /\ [](\A i \in 1..Len(log) :
          /\ ropeAt(heap, log[i].at) = log[i].rope
          /\ toString(ropeAt(heap, log[i].at)) = toString(log[i].rope)
          /\ log[i].ret # 0 => ropeAt(heap, log[i].ret) = log[i].out)
  /\ [][\A a \in 1..Len(heap) : heap'[a] = heap[a]]_vars

C6_Witness ==
  /\ Len(log) >= 2
  /\ \E i \in 1..Len(log) : log[i].name = "deleteRange" /\ log[i].ret # 0
  /\ Called("insert") /\ Last.ret # 0
  /\ \E a \in 1..Len(heap) : Updated(a)
====
